---- MODULE Spec2Model ----
(***************************************************************************)
(* Model of the address line splitter: split_address_equally and           *)
(* distribute_parts of address-string-to-line-convertor.py.                *)
(*                                                                         *)
(* A string is a sequence of one-character strings.  One call of           *)
(* split_address_equally(input) is run statement block by statement block; *)
(* the two for-loops advance one iteration per step.  The loop bodies are  *)
(* operators (word_iteration, part_iteration), so that the same code is    *)
(* also available as the pure function split_address_equally(s).           *)
(***************************************************************************)
EXTENDS Integers, Sequences, FiniteSets, TLC

VARIABLES
  input,           \* the argument `address` as passed by the caller
  pc,              \* position in split_address_equally / distribute_parts
  address,         \* `address` after line 25
  target_length,   \* line 36 (word path) or line 102 (distribute_parts)
  parts,           \* line 40
  words,           \* line 47 (padded by line 52)
  lines,           \* line 60 / line 93
  current_line,    \* line 61 / line 104 (0-based, as in the code)
  current_length,  \* line 105
  k,               \* number of loop iterations done (position of the item just handled)
  remaining_text,  \* line 74, as computed by the latest iteration that computed it
  advanced,        \* whether the latest iteration executed `current_line += 1`
  result           \* the returned lines <<address_line_1, address_line_2, address_line_3>>

vars == <<input, pc, address, target_length, parts, words, lines, current_line,
          current_length, k, remaining_text, advanced, result>>

(***************************************************************************)
(* Bounds of the explored inputs.                                          *)
(***************************************************************************)
MaxWords == 4

(***************************************************************************)
(* Program constants.                                                      *)
(***************************************************************************)
NUM_LINES == 3
MIN_REMAINING_PER_LINE == 10

SP == <<" ">>
COMMA_SP == <<",", " ">>
Delimiters == {",", ";"}
Whitespace == {" ", "\t", "\n", "\r", "\f"}

(***************************************************************************)
(* String and list primitives, computed the way Python computes them.      *)
(***************************************************************************)
RECURSIVE SplitAcc(_, _, _, _)
SplitAcc(s, i, cur, acc) ==
  IF i > Len(s)
  THEN IF cur = <<>> THEN acc ELSE Append(acc, cur)
  ELSE IF s[i] \in Whitespace
       THEN SplitAcc(s, i + 1, <<>>, IF cur = <<>> THEN acc ELSE Append(acc, cur))
       ELSE SplitAcc(s, i + 1, Append(cur, s[i]), acc)

\* str.split() without arguments: the maximal runs of non-whitespace characters
str_split(s) == SplitAcc(s, 1, <<>>, <<>>)

RECURSIVE str_join(_, _)
\* sep.join(xs)
str_join(sep, xs) ==
  IF xs = <<>> THEN <<>>
  ELSE IF Len(xs) = 1 THEN xs[1]
  ELSE xs[1] \o sep \o str_join(sep, Tail(xs))

RECURSIVE ReSplitAcc(_, _, _, _)
ReSplitAcc(s, i, cur, acc) ==
  IF i > Len(s) THEN Append(acc, cur)
  ELSE IF s[i] \in Delimiters
       THEN ReSplitAcc(s, i + 1, <<>>, Append(acc, cur))
       ELSE ReSplitAcc(s, i + 1, Append(cur, s[i]), acc)

\* re.split(r'[,;]', s): the pieces between delimiters, empty pieces included
re_split(s) == ReSplitAcc(s, 1, <<>>, <<>>)

RECURSIVE str_lstrip(_)
str_lstrip(s) ==
  IF s # <<>> /\ s[1] \in Whitespace THEN str_lstrip(Tail(s)) ELSE s

RECURSIVE str_rstrip(_)
str_rstrip(s) ==
  IF s # <<>> /\ s[Len(s)] \in Whitespace
  THEN str_rstrip(SubSeq(s, 1, Len(s) - 1)) ELSE s

\* str.strip()
str_strip(s) == str_rstrip(str_lstrip(s))

RECURSIVE IndexFrom(_, _, _)
IndexFrom(xs, x, i) ==
  IF i > Len(xs) THEN 0
  ELSE IF xs[i] = x THEN i
  ELSE IndexFrom(xs, x, i + 1)

\* a lookup that skips the first item, as xs.index(x, 1) would
list_index_from_second(xs, x) == IndexFrom(xs, x, 2)

\* list.index(x): the first position (1-based) holding a value equal to x;
\* 0 stands for the ValueError raised when there is none
list_index(xs, x) == IndexFrom(xs, x, 1)

RECURSIVE SumLen(_)
\* sum(len(part) for part in parts)
SumLen(xs) == IF xs = <<>> THEN 0 ELSE Len(xs[1]) + SumLen(Tail(xs))

\* trimming both ends only, as address.strip() would
normalize_strip_only(s) == str_strip(s)

\* line 25: ' '.join(address.split())
normalize_whitespace(s) == str_join(SP, str_split(s))

RECURSIVE StripAll(_)
StripAll(xs) ==
  IF xs = <<>> THEN <<>>
  ELSE LET p == str_strip(xs[1])
       IN  (IF p # <<>> THEN <<p>> ELSE <<>>) \o StripAll(Tail(xs))

\* lines 39-40: the trimmed, non-empty pieces between delimiters
split_parts(s) == StripAll(re_split(s))

RECURSIVE pad_words_space(_)
\* padding with a blank instead of the empty string
pad_words_space(ws) == IF Len(ws) < 3 THEN pad_words_space(Append(ws, SP)) ELSE ws

RECURSIVE pad_words(_)
\* lines 51-52: while len(words) < 3: words.append("")
pad_words(ws) == IF Len(ws) < 3 THEN pad_words(Append(ws, <<>>)) ELSE ws

\* lines 60 and 93: lines = ["", "", ""]
EmptyLines == << <<>>, <<>>, <<>> >>

\* a return value that lacks address_line_3
empty_address_lines_two == << <<>>, <<>> >>

\* lines 28-32: the lines returned for an empty address
empty_address_lines == << <<>>, <<>>, <<>> >>

\* the position of the iteration itself
word_index_positional(ws, word, i) == i

\* line 73: words.index(word), for the word at position i (which the code does not use)
word_index(ws, word, i) == list_index(ws, word)

\* line 117: parts.index(part), for the part at position i (which the code does not use)
part_index(ps, part, i) == list_index(ps, part)

\* appending without the separating space
join_word_nospace(line, word) == line \o word

\* line 66: lines[current_line] += " " + word
join_word(line, word) == line \o SP \o word

\* appending with a bare comma
join_part_comma(line, part) == line \o <<",">> \o part

\* line 109: lines[current_line] += ", " + part
join_part(line, part) == line \o COMMA_SP \o part

\* the advance test without the guard of line 79
should_advance_unguarded(line, target, remaining_lines, rt) ==
  Len(line) >= target /\ remaining_lines > 0

\* lines 78-79: the test that moves the word loop to the next line
should_advance(line, target, remaining_lines, rt) ==
  /\ Len(line) >= target
  /\ remaining_lines > 0
  /\ Len(rt) >= remaining_lines * MIN_REMAINING_PER_LINE

(***************************************************************************)
(* Loop bodies.  A loop state is a record; raised = TRUE stands for an     *)
(* exception leaving the function.                                         *)
(***************************************************************************)
\* lines 63-80: one iteration of `for word in words`, word = ws[i]
word_iteration(ws, target, st, i) ==
  LET word == ws[i]
      cl   == st.current_line
      line == IF st.lines[cl + 1] # <<>>
              THEN join_word(st.lines[cl + 1], word)
              ELSE word
      lines1 == [st.lines EXCEPT ![cl + 1] = line]
      idx  == word_index(ws, word, i)
      remaining_words == SubSeq(ws, idx + 1, Len(ws))
      rt   == str_join(SP, remaining_words)
      remaining_lines == 3 - cl - 1
      adv  == should_advance(line, target, remaining_lines, rt)
  IN  IF cl < 2
      THEN IF idx = 0
           THEN [st EXCEPT !.lines = lines1, !.advanced = FALSE, !.raised = TRUE]
           ELSE [st EXCEPT !.lines = lines1,
                           !.current_line = IF adv THEN cl + 1 ELSE cl,
                           !.remaining_text = rt,
                           !.advanced = adv]
      ELSE [st EXCEPT !.lines = lines1, !.advanced = FALSE]

\* lines 107-120: one iteration of `for part in parts`, part = ps[i]
part_iteration(ps, num_lines, target, st, i) ==
  LET part == ps[i]
      cl   == st.current_line
      fresh == st.lines[cl + 1] = <<>>
      line == IF fresh THEN part ELSE join_part(st.lines[cl + 1], part)
      len1 == IF fresh THEN Len(part) ELSE st.current_length + Len(part) + 2
      lines1 == [st.lines EXCEPT ![cl + 1] = line]
      idx  == part_index(ps, part, i)
      remaining_parts == SubSeq(ps, idx + 1, Len(ps))
      adv  == remaining_parts # <<>> /\ len1 >= target
  IN  IF cl < num_lines - 1
      THEN IF idx = 0
           THEN [st EXCEPT !.lines = lines1, !.current_length = len1,
                           !.advanced = FALSE, !.raised = TRUE]
           ELSE [st EXCEPT !.lines = lines1,
                           !.current_line = IF adv THEN cl + 1 ELSE cl,
                           !.current_length = IF adv THEN 0 ELSE len1,
                           !.advanced = adv]
      ELSE [st EXCEPT !.lines = lines1, !.current_length = len1, !.advanced = FALSE]

LoopInit ==
  [lines |-> EmptyLines, current_line |-> 0, current_length |-> 0,
   remaining_text |-> <<>>, advanced |-> FALSE, raised |-> FALSE]

RECURSIVE WordLoop(_, _, _, _)
WordLoop(ws, target, st, i) ==
  IF i > Len(ws) \/ st.raised THEN st
  ELSE WordLoop(ws, target, word_iteration(ws, target, st, i), i + 1)

RECURSIVE PartLoop(_, _, _, _, _)
PartLoop(ps, num_lines, target, st, i) ==
  IF i > Len(ps) \/ st.raised THEN st
  ELSE PartLoop(ps, num_lines, target, part_iteration(ps, num_lines, target, st, i), i + 1)

\* a comparison that never takes the one-part-per-line branch for three parts
exact_match_less(ps, num_lines) == Len(ps) < num_lines

\* line 95: the branch of distribute_parts that places one part per line
exact_match(ps, num_lines) == Len(ps) = num_lines

\* lines 89-126 as a function: the three lines, or <<>> when an exception leaves it
distribute_parts(ps, num_lines) ==
  IF exact_match(ps, num_lines)
  THEN [i \in 1..3 |-> IF i <= Len(ps) THEN ps[i] ELSE <<>>]
  ELSE LET st == PartLoop(ps, num_lines, SumLen(ps) \div num_lines, LoopInit, 1)
       IN  IF st.raised THEN <<>> ELSE st.lines

\* lines 20-86 as a function: the three lines, or <<>> when an exception leaves it
split_address_equally(s) ==
  LET a  == normalize_whitespace(s)
      ps == split_parts(a)
      ws == str_split(a)
  IN  IF a = <<>> THEN empty_address_lines
      ELSE IF Len(ps) >= 3 THEN distribute_parts(ps, NUM_LINES)
      ELSE IF Len(ws) < 3 THEN SubSeq(pad_words(ws), 1, 3)
      ELSE LET st == WordLoop(ws, Len(a) \div 3, LoopInit, 1)
           IN  IF st.raised THEN <<>> ELSE st.lines

(***************************************************************************)
(* Inputs.                                                                 *)
(***************************************************************************)
\* lines 162-168: the addresses the module's own test run splits
test_addresses == {
  <<
    "1", "2", "3", " ", "M", "a", "i", "n", " ", "S", "t", "r", "e", "e", "t", ",", " ",
    "A", "p", "a", "r", "t", "m", "e", "n", "t", " ", "4", "B", ",", " ", "S", "p", "r",
    "i", "n", "g", "f", "i", "e", "l", "d", ",", " ", "I", "L", " ", "6", "2", "7", "0",
    "1", ",", " ", "U", "n", "i", "t", "e", "d", " ", "S", "t", "a", "t", "e", "s" >>,
  <<
    "P", "l", "o", "t", " ", "N", "o", ".", " ", "4", "5", ",", " ", "S", "e", "c", "t",
    "o", "r", " ", "1", "2", ",", " ", "N", "e", "a", "r", " ", "C", "i", "t", "y", " ",
    "M", "a", "l", "l", ",", " ", "G", "u", "r", "g", "a", "o", "n", ",", " ", "H", "a",
    "r", "y", "a", "n", "a", " ", "1", "2", "2", "0", "0", "1" >>,
  <<
    "F", "l", "a", "t", " ", "3", "0", "1", ",", " ", "K", "r", "i", "s", "h", "n", "a",
    " ", "T", "o", "w", "e", "r", "s", ",", " ", "M", "G", " ", "R", "o", "a", "d", ",",
    " ", "B", "a", "n", "g", "a", "l", "o", "r", "e", " ", "5", "6", "0", "0", "0", "1" >>,
  <<
    "1", "2", "3", " ", "S", "h", "o", "r", "t", " ", "S", "t" >>,
  <<
    "B", "u", "i", "l", "d", "i", "n", "g", " ", "A", ",", " ", "F", "l", "o", "o", "r",
    " ", "3", ",", " ", "O", "f", "f", "i", "c", "e", " ", "3", "0", "2", ",", " ", "T",
    "e", "c", "h", " ", "P", "a", "r", "k", ",", " ", "W", "h", "i", "t", "e", "f", "i",
    "e", "l", "d", ",", " ", "B", "a", "n", "g", "a", "l", "o", "r", "e", ",", " ", "K",
    "a", "r", "n", "a", "t", "a", "k", "a", ",", " ", "I", "n", "d", "i", "a", " ", "5",
    "6", "0", "0", "6", "6" >> }

RECURSIVE Rep(_, _)
Rep(c, n) == IF n = 0 THEN <<>> ELSE <<c>> \o Rep(c, n - 1)

\* The words and separators explored inputs are built from: an empty word (so
\* that separators can be adjacent, leading or trailing), a one-letter word
\* and a word of MIN_REMAINING_PER_LINE letters.
InputWords == { <<>>, <<"a">>, Rep("x", MIN_REMAINING_PER_LINE) }
InputSeparators == { <<" ">>, <<"\t">>, <<",">>, <<";">> }

RECURSIVE InputsOf(_)
InputsOf(n) ==
  IF n = 1 THEN InputWords
  ELSE LET shorter == InputsOf(n - 1)
       IN  shorter \cup { p \o s \o w : p \in shorter, s \in InputSeparators, w \in InputWords }

\* the same text with every tab replaced by a newline
WithNewlines(s) == [i \in 1..Len(s) |-> IF s[i] = "\t" THEN "\n" ELSE s[i]]

Inputs ==
  InputsOf(MaxWords) \cup { WithNewlines(s) : s \in InputsOf(MaxWords - 1) } \cup test_addresses

(***************************************************************************)
(* The call, step by step.                                                 *)
(***************************************************************************)
Init ==
  /\ input \in Inputs
  /\ pc = "normalize"
  /\ address = <<>>
  /\ target_length = 0
  /\ parts = <<>>
  /\ words = <<>>
  /\ lines = EmptyLines
  /\ current_line = 0
  /\ current_length = 0
  /\ k = 0
  /\ remaining_text = <<>>
  /\ advanced = FALSE
  /\ result = <<>>

\* lines 25-32
Normalize ==
  /\ pc = "normalize"
  /\ address' = normalize_whitespace(input)
  /\ IF address' = <<>>
     THEN /\ result' = empty_address_lines
          /\ pc' = "done"
     ELSE /\ result' = result
          /\ pc' = "split"
  /\ UNCHANGED <<input, target_length, parts, words, lines, current_line,
                 current_length, k, remaining_text, advanced>>

\* lines 35-44 and 93, 101-105: split on delimiters, choose the path
SplitDelimiters ==
  /\ pc = "split"
  /\ parts' = split_parts(address)
  /\ IF Len(parts') >= 3
     THEN /\ pc' = IF exact_match(parts', NUM_LINES) THEN "exact" ELSE "parts_loop"
          /\ target_length' = IF exact_match(parts', NUM_LINES)
                              THEN Len(address) \div 3
                              ELSE SumLen(parts') \div NUM_LINES
     ELSE /\ pc' = "words"
          /\ target_length' = Len(address) \div 3
  /\ UNCHANGED <<input, address, words, lines, current_line, current_length, k,
                 remaining_text, advanced, result>>

\* lines 95-98 and 122-126
DistributeExact ==
  /\ pc = "exact"
  /\ lines' = [i \in 1..3 |-> IF i <= Len(parts) THEN parts[i] ELSE <<>>]
  /\ result' = lines'
  /\ pc' = "done"
  /\ UNCHANGED <<input, address, target_length, parts, words, current_line,
                 current_length, k, remaining_text, advanced>>

LoopState ==
  [lines |-> lines, current_line |-> current_line, current_length |-> current_length,
   remaining_text |-> remaining_text, advanced |-> advanced, raised |-> FALSE]

\* lines 107-120
DistributeStep ==
  /\ pc = "parts_loop"
  /\ k < Len(parts)
  /\ LET st == part_iteration(parts, NUM_LINES, target_length, LoopState, k + 1)
     IN  /\ lines' = st.lines
         /\ current_line' = st.current_line
         /\ current_length' = st.current_length
         /\ advanced' = st.advanced
         /\ pc' = IF st.raised THEN "raised" ELSE pc
  /\ k' = k + 1
  /\ UNCHANGED <<input, address, target_length, parts, words, remaining_text, result>>

\* lines 122-126
DistributeReturn ==
  /\ pc = "parts_loop"
  /\ k = Len(parts)
  /\ result' = lines
  /\ pc' = "done"
  /\ UNCHANGED <<input, address, target_length, parts, words, lines, current_line,
                 current_length, k, remaining_text, advanced>>

\* lines 47-61
SplitWords ==
  /\ pc = "words"
  /\ LET ws == str_split(address)
     IN  IF Len(ws) < 3
         THEN /\ words' = pad_words(ws)
              /\ IF Len(words') >= 3
                 THEN /\ result' = <<words'[1], words'[2], words'[3]>>
                      /\ pc' = "done"
                 ELSE /\ result' = result
                      /\ pc' = "raised"
         ELSE /\ words' = ws
              /\ result' = result
              /\ pc' = "words_loop"
  /\ UNCHANGED <<input, address, target_length, parts, lines, current_line,
                 current_length, k, remaining_text, advanced>>

\* lines 63-80
WordStep ==
  /\ pc = "words_loop"
  /\ k < Len(words)
  /\ LET st == word_iteration(words, target_length, LoopState, k + 1)
     IN  /\ lines' = st.lines
         /\ current_line' = st.current_line
         /\ remaining_text' = st.remaining_text
         /\ advanced' = st.advanced
         /\ pc' = IF st.raised THEN "raised" ELSE pc
  /\ k' = k + 1
  /\ UNCHANGED <<input, address, target_length, parts, words, current_length, result>>

\* lines 82-86
WordsReturn ==
  /\ pc = "words_loop"
  /\ k = Len(words)
  /\ result' = lines
  /\ pc' = "done"
  /\ UNCHANGED <<input, address, target_length, parts, words, lines, current_line,
                 current_length, k, remaining_text, advanced>>

Next ==
  \/ Normalize
  \/ SplitDelimiters
  \/ DistributeExact
  \/ DistributeStep
  \/ DistributeReturn
  \/ SplitWords
  \/ WordStep
  \/ WordsReturn

Spec == Init /\ [][Next]_vars

(***************************************************************************)
(* Definitions used to state the properties.                               *)
(***************************************************************************)
Done == pc = "done"

RECURSIVE CollapseFrom(_, _, _, _)
CollapseFrom(s, i, out, pending) ==
  IF i > Len(s) THEN out
  ELSE IF s[i] \in {" ", "\t", "\n"}
       THEN CollapseFrom(s, i + 1, out, out # <<>>)
       ELSE CollapseFrom(s, i + 1, (IF pending THEN out \o SP ELSE out) \o <<s[i]>>, FALSE)

\* every run of spaces, tabs and newlines becomes one space; both ends are trimmed
Normalized(s) == CollapseFrom(s, 1, <<>>, FALSE)

IsNonEmpty(l) == l # <<>>
NonEmptyLines(r) == SelectSeq(r, IsNonEmpty)

\* the word list of the call: the words of the normalized address, before any padding
WordList == str_split(Normalized(input))

\* the first position whose word equals the word at position i
FirstPosition(ws, i) ==
  CHOOSE j \in 1..i : ws[j] = ws[i] /\ \A n \in 1..(j - 1) : ws[n] # ws[i]

WordsAfter(ws, i) == str_join(SP, SubSeq(ws, i + 1, Len(ws)))

HasRepeat(ws) == \E i, j \in 1..Len(ws) : i < j /\ ws[i] = ws[j]

\* the line index the latest loop iteration worked on
LineBefore == IF advanced THEN current_line - 1 ELSE current_line

ShortSt == <<"1", "2", "3", " ", "S", "h", "o", "r", "t", " ", "S", "t">>

\* the guard of one of the steps holds
SomeStepPossible ==
  \/ pc \in {"normalize", "split", "exact", "words"}
  \/ pc = "parts_loop" /\ k <= Len(parts)
  \/ pc = "words_loop" /\ k <= Len(words)

(***************************************************************************)
(* C1: the call never raises and never gets stuck before returning, and    *)
(* what it returns is exactly three strings.                               *)
(***************************************************************************)
C1_Total ==
  /\ pc # "raised"
  /\ ~Done => SomeStepPossible
  /\ Done => /\ Len(result) = 3
             /\ \A i \in 1..3 : result[i] \in Seq(STRING)

\* a call that returned from the word loop after looking up a repeated word
C1_Witness ==
  /\ Done
  /\ Len(result) = 3
  /\ Len(WordList) >= 3
  /\ k = Len(words)
  /\ HasRepeat(words)

(***************************************************************************)
(* C2 as stated: with fewer than 3 segments and exactly 3 words, each word *)
(* is returned on its own line.                                            *)
(***************************************************************************)
C2_EachWordOnItsOwnLine ==
  (Done /\ Len(parts) < 3 /\ Len(WordList) = 3) => result = WordList

(***************************************************************************)
(* C2 amended: with fewer than 3 segments and exactly 3 words, each word   *)
(* is on its own line exactly when word 1 and word 2 each reach the target *)
(* length, the text after word 1 has at least 20 characters, and word 3    *)
(* has at least 10 characters or word 2 repeats word 1; "123 Short St"     *)
(* comes back whole on line 1.                                             *)
(***************************************************************************)
C2_ThreeWords ==
  /\ (Done /\ Len(parts) < 3 /\ Len(WordList) = 3) =>
       LET w == WordList
           T == Len(Normalized(input)) \div 3
       IN  result = w <=>
             /\ Len(w[1]) >= T
             /\ Len(w[2]) >= T
             /\ Len(w[2] \o SP \o w[3]) >= 20
             /\ (Len(w[3]) >= 10 \/ w[2] = w[1])
  /\ (Done /\ input = ShortSt) => result = <<ShortSt, <<>>, <<>> >>

\* three words that do end up one per line
C2_Witness ==
  /\ Done
  /\ Len(parts) < 3
  /\ Len(WordList) = 3
  /\ result = WordList

(***************************************************************************)
(* C3: with 3 or more segments the words are never split: the lines are    *)
(* the ", "-joins of three consecutive runs of whole segments (a run may   *)
(* be empty), and the non-empty lines joined with ", " give the ", "-join  *)
(* of the whole segment list.                                              *)
(***************************************************************************)
C3_SegmentsKeptWhole ==
  (Done /\ Len(parts) >= 3) =>
    /\ words = <<>>
    /\ \E i, j \in 0..Len(parts) :
         /\ i <= j
         /\ result = << str_join(COMMA_SP, SubSeq(parts, 1, i)),
                        str_join(COMMA_SP, SubSeq(parts, i + 1, j)),
                        str_join(COMMA_SP, SubSeq(parts, j + 1, Len(parts))) >>
    /\ str_join(COMMA_SP, NonEmptyLines(result)) = str_join(COMMA_SP, parts)

\* more than 3 segments, two of which were joined on the first line
C3_Witness ==
  /\ Done
  /\ Len(parts) > 3
  /\ result[1] = str_join(COMMA_SP, SubSeq(parts, 1, 2))
  /\ result[2] # <<>>

(***************************************************************************)
(* C4: the call returns for its input what the function returns for the    *)
(* normalized input.                                                       *)
(***************************************************************************)
C4_NormalizationTransparent ==
  Done => result = split_address_equally(Normalized(input))

\* an input that normalization changes and that went through the word loop
C4_Witness ==
  /\ Done
  /\ Normalized(input) # input
  /\ Len(WordList) >= 3
  /\ k = Len(words)
  /\ result[2] # <<>>

(***************************************************************************)
(* C5: with exactly 3 segments the lines are the segments, in order, and   *)
(* hold no ',' and no ';'.                                                 *)
(***************************************************************************)
C5_ThreeSegments ==
  (Done /\ Len(parts) = 3) =>
    /\ result = parts
    /\ \A i \in 1..3 : \A n \in 1..Len(result[i]) : result[i][n] \notin Delimiters

\* three segments left after an empty one was discarded, ';' among the delimiters
C5_Witness ==
  /\ Done
  /\ Len(parts) = 3
  /\ Len(re_split(address)) > 3
  /\ \E n \in 1..Len(input) : input[n] = ";"
  /\ result = parts

(***************************************************************************)
(* C6: with fewer than 3 segments and 1 or 2 words, the words are returned *)
(* one per line, followed by empty lines.                                  *)
(***************************************************************************)
C6_FewWordsPadded ==
  /\ (Done /\ Len(parts) < 3 /\ Len(WordList) = 1) =>
       result = <<WordList[1], <<>>, <<>> >>
  /\ (Done /\ Len(parts) < 3 /\ Len(WordList) = 2) =>
       result = <<WordList[1], WordList[2], <<>> >>

\* two words, returned on lines 1 and 2
C6_Witness ==
  /\ Done
  /\ Len(parts) < 3
  /\ Len(WordList) = 2
  /\ result[2] = WordList[2]

(***************************************************************************)
(* C7: an input made of whitespace only (or of nothing) gives three empty  *)
(* lines.                                                                  *)
(***************************************************************************)
C7_EmptyInput ==
  (Done /\ \A n \in 1..Len(input) : input[n] \in {" ", "\t", "\n"}) =>
    result = << <<>>, <<>>, <<>> >>

\* a non-empty input of whitespace only
C7_Witness ==
  /\ Done
  /\ input # <<>>
  /\ \A n \in 1..Len(input) : input[n] \in {" ", "\t", "\n"}
  /\ result = << <<>>, <<>>, <<>> >>

(***************************************************************************)
(* C8 as stated: whenever the word loop advances from line index i to      *)
(* i + 1 after placing a word, the words after that word, joined by single *)
(* spaces, have at least 10 * (2 - i) characters.                          *)
(***************************************************************************)
C8_RemainingGuard ==
  (pc = "words_loop" /\ k >= 1 /\ advanced) =>
    Len(WordsAfter(words, k)) >= 10 * (2 - LineBefore)

(***************************************************************************)
(* C9: the remaining text tested after the word at position k is the       *)
(* space-join of the words after the first position holding an equal word  *)
(* (the words after k when no word repeats), and the loop advances exactly *)
(* when the line index is below 2, the line has reached                    *)
(* floor(len(normalized address) / 3) and the remaining text has at least  *)
(* 10 * (2 - line index) characters.                                       *)
(***************************************************************************)
C9_ValueBasedLookup ==
  (pc = "words_loop" /\ k >= 1) =>
    /\ LineBefore < 2 =>
         /\ remaining_text = WordsAfter(words, FirstPosition(words, k))
         /\ ~HasRepeat(words) => remaining_text = WordsAfter(words, k)
    /\ advanced <=>
         /\ LineBefore < 2
         /\ Len(lines[LineBefore + 1]) >= Len(Normalized(input)) \div 3
         /\ Len(remaining_text) >= 10 * (2 - LineBefore)

\* the loop advanced on a repeated word, tested against the text after its first occurrence
C9_Witness ==
  /\ pc = "words_loop"
  /\ k >= 2
  /\ FirstPosition(words, k) < k
  /\ advanced
  /\ remaining_text # WordsAfter(words, k)

(***************************************************************************)
(* C10: on the word path the non-empty lines, joined with single spaces,   *)
(* give the normalized address; on every path an empty line is followed    *)
(* by empty lines only.                                                    *)
(***************************************************************************)
C10_NothingLost ==
  Done =>
    /\ Len(parts) < 3 => str_join(SP, NonEmptyLines(result)) = Normalized(input)
    /\ result[1] = <<>> => (result[2] = <<>> /\ result[3] = <<>>)
    /\ result[2] = <<>> => result[3] = <<>>

\* a word-path result of two lines of several words and an empty third line
C10_Witness ==
  /\ Done
  /\ Len(parts) < 3
  /\ Len(WordList) > 3
  /\ result[1] # <<>>
  /\ result[2] # <<>>
  /\ result[3] = <<>>

====
